---- MODULE Spec2Model ----
(***************************************************************************)
(* Conway's Game of Life as implemented in main.go: a rows x columns grid  *)
(* of cells (alive, aliveNext, x, y), scanned once per iteration of the    *)
(* main loop by cell.checkState and then drawn.                            *)
(***************************************************************************)
EXTENDS Integers, Sequences, FiniteSets, TLC

VARIABLES
    rows,        \* const rows: number of rows of the grid of this run
    columns,     \* const columns: number of columns of the grid of this run
    cells,       \* cells[x][y]: the cell structs, 0-indexed as in Go
    pc,          \* position of main: "loop", "scan", "draw", "done", "panic"
    sx,          \* row index x of the cell the scan visits next
    sy,          \* column index y of the cell the scan visits next
    order,       \* the order in which a scan visits the cells
    visited,     \* cells already passed to checkState in the current scan
    last,        \* index pair of the cell of the latest checkState call
    tick,        \* number of loop iterations started
    shouldClose, \* the window's close flag (window.ShouldClose())
    liveCount,   \* result of the latest liveNeighbors call
    reads,       \* index pairs the latest liveNeighbors call used, in order
    initial,     \* alive grid returned by makeCells
    tickStart,   \* the cells as they were when the current scan began
    prevNext,    \* aliveNext grid at the end of the previous iteration
    drawn,       \* alive grid read by the latest call of draw
    drawnPrev,   \* alive grid read by the call of draw before that
    drawCalls,   \* index pairs of the cells the latest draw issued a draw call for
    checks,      \* number of checkState calls made in the current scan
    draws,       \* number of calls of draw made so far
    polls        \* number of calls of glfw.PollEvents made so far

vars == <<rows, columns, cells, pc, sx, sy, order, visited, last, tick, shouldClose,
          liveCount, reads, initial, tickStart, prevNext, drawn, drawnPrev,
          drawCalls, checks, draws, polls>>

----------------------------------------------------------------------------
(* Bounds of the model *)

MaxRows == 3
MaxColumns == 3
MaxTicks == 3
MaxBlinkerDim == 5
MaxBlockDim == 4
MaxOrderDim == 3

----------------------------------------------------------------------------
(* Data *)

\* len() of a 0-indexed slice
Len0(s) == Cardinality(DOMAIN s)

\* makeCells without the assignment c.aliveNext = c.alive
Cell_NoNext(x, y, a) == [alive |-> a, aliveNext |-> FALSE, x |-> x, y |-> y]

\* newCell storing its arguments in the other order
Cell_Swapped(x, y, a) == [alive |-> a, aliveNext |-> a, x |-> y, y |-> x]

\* the cell struct without its drawable
Cell(x, y, a) == [alive |-> a, aliveNext |-> a, x |-> x, y |-> y]

\* the alive field of every cell, as a grid of booleans
AliveGrid(cs) == [x \in DOMAIN cs |-> [y \in DOMAIN cs[x] |-> cs[x][y].alive]]

\* the aliveNext field of every cell, as a grid of booleans
NextGrid(cs) == [x \in DOMAIN cs |-> [y \in DOMAIN cs[x] |-> cs[x][y].aliveNext]]

\* makeCells: rows x columns cells, alive drawn at random, aliveNext = alive
makeCells(r, c, g) == [x \in 0..(r-1) |-> [y \in 0..(c-1) |-> Cell(x, y, g[x][y])]]

\* the alive assignments rand.Float64() < threshold may produce
Grids(r, c) == [0..(r-1) -> [0..(c-1) -> BOOLEAN]]

----------------------------------------------------------------------------
(* cell.liveNeighbors *)

\* add with index -1 of a row sent to the first row instead of the last
AddX_LowToFirst(cs, x) ==
    IF x = Len0(cs) THEN 0
    ELSE IF x = -1 THEN 0
    ELSE x

\* the wraparound adjustment of the row index in add
AddX(cs, x) ==
    IF x = Len0(cs) THEN 0
    ELSE IF x = -1 THEN Len0(cs) - 1
    ELSE x

\* add without the adjustment of a column index equal to the row's length
AddY_NoHighWrap(cs, x, y) ==
    IF y = -1 THEN Len0(cs[x]) - 1
    ELSE y

\* the wraparound adjustment of the column index in add, given the adjusted row
AddY(cs, x, y) ==
    IF y = Len0(cs[x]) THEN 0
    ELSE IF y = -1 THEN Len0(cs[x]) - 1
    ELSE y

\* Go's bounds check of cells[x]
RowInRange(cs, x) == x \in DOMAIN cs

\* Go's bounds check of cells[x][y]
InRange(cs, p) == p[1] \in DOMAIN cs /\ p[2] \in DOMAIN cs[p[1]]

\* the index pair add(x, y) reads; when the row is out of range the
\* evaluation of len(cells[x]) already panics and y is left as passed
AddIndex(cs, x, y) ==
    LET x1 == AddX(cs, x)
    IN  IF RowInRange(cs, x1) THEN <<x1, AddY(cs, x1, y)>> ELSE <<x1, y>>

\* the eight calls with the bottom-left call written as a second top-left
NeighborArgs_TwiceTopLeft(c) ==
    << <<c.x - 1, c.y>>,     <<c.x + 1, c.y>>,
       <<c.x, c.y + 1>>,     <<c.x, c.y - 1>>,
       <<c.x - 1, c.y + 1>>, <<c.x + 1, c.y + 1>>,
       <<c.x - 1, c.y + 1>>, <<c.x + 1, c.y - 1>> >>

\* the eight calls of add, in the order of the code
NeighborArgs(c) ==
    << <<c.x - 1, c.y>>,     <<c.x + 1, c.y>>,
       <<c.x, c.y + 1>>,     <<c.x, c.y - 1>>,
       <<c.x - 1, c.y + 1>>, <<c.x + 1, c.y + 1>>,
       <<c.x - 1, c.y - 1>>, <<c.x + 1, c.y - 1>> >>

\* the index pairs the eight calls of add use
NeighborReads(cs, c) ==
    [i \in 1..8 |-> AddIndex(cs, NeighborArgs(c)[i][1], NeighborArgs(c)[i][2])]

\* the number of calls of add that complete: 8, or the position of the
\* first one whose index is out of range (the run panics there)
ReadsDone(cs, c) ==
    LET rd == NeighborReads(cs, c)
        bad == {i \in 1..8 : ~InRange(cs, rd[i])}
    IN  IF bad = {} THEN 8 ELSE CHOOSE i \in bad : \A j \in bad : i <= j

\* liveNeighbors panics with index out of range
Panics(cs, c) == \E i \in 1..8 : ~InRange(cs, NeighborReads(cs, c)[i])

\* liveCount after the eight calls of add
liveNeighbors(cs, c) ==
    LET rd == NeighborReads(cs, c)
    IN  Cardinality({i \in 1..8 : cs[rd[i][1]][rd[i][2]].alive})

----------------------------------------------------------------------------
(* cell.checkState *)

\* the chain with the overpopulation test written as liveCount > 4
NextState_Over4(a, n) ==
    IF a
    THEN LET n1 == IF n < 2 THEN FALSE ELSE a
             n2 == IF n = 2 \/ n = 3 THEN TRUE ELSE n1
             n3 == IF n > 4 THEN FALSE ELSE n2
         IN  n3
    ELSE IF n = 3 THEN TRUE ELSE a

\* the chain with survival on two live neighbours only
NextState_Survive2(a, n) ==
    IF a
    THEN LET n1 == IF n < 2 THEN FALSE ELSE a
             n2 == IF n = 2 THEN TRUE ELSE n1
             n3 == IF n > 2 THEN FALSE ELSE n2
         IN  n3
    ELSE IF n = 3 THEN TRUE ELSE a

\* the if/else chain of checkState on aliveNext, which starts equal to alive
NextState(a, n) ==
    IF a
    THEN LET n1 == IF n < 2 THEN FALSE ELSE a
             n2 == IF n = 2 \/ n = 3 THEN TRUE ELSE n1
             n3 == IF n > 3 THEN FALSE ELSE n2
         IN  n3
    ELSE IF n = 3 THEN TRUE ELSE a

\* the two assignments made to every cell of the row of cells[x][y]
Apply_WholeRow(cs, x, y) ==
    [cs EXCEPT ![x] = [j \in DOMAIN cs[x] |->
        [cs[x][j] EXCEPT !.alive = cs[x][j].aliveNext]]]

\* checkState without the assignment c.alive = c.aliveNext
Apply_NoCommit(cs, x, y) ==
    LET c  == cs[x][y]
        c2 == [c EXCEPT !.aliveNext = c.alive]
    IN  [cs EXCEPT ![x][y] = c2]

\* c.alive = c.aliveNext; c.aliveNext = c.alive
Apply(cs, x, y) ==
    LET c  == cs[x][y]
        c1 == [c EXCEPT !.alive = c.aliveNext]
        c2 == [c1 EXCEPT !.aliveNext = c1.alive]
    IN  [cs EXCEPT ![x][y] = c2]

\* checkState writing the new state into alive as soon as it is computed
checkState_Eager(cs, x, y) ==
    LET cs1 == Apply(cs, x, y)
        c   == cs1[x][y]
        n   == liveNeighbors(cs1, c)
    IN  [cs1 EXCEPT ![x][y].aliveNext = NextState(c.alive, n),
                    ![x][y].alive = NextState(c.alive, n)]

\* checkState of cells[x][y] when liveNeighbors returns
checkState(cs, x, y) ==
    LET cs1 == Apply(cs, x, y)
        c   == cs1[x][y]
        n   == liveNeighbors(cs1, c)
    IN  [cs1 EXCEPT ![x][y].aliveNext = NextState(c.alive, n)]

----------------------------------------------------------------------------
(* main *)

\* the order of the nested range loops of main: x outer, y inner
RowMajor(r, c) == [k \in 1..(r * c) |-> <<(k - 1) \div c, (k - 1) % c>>]

\* state after makeCells returns and before the loop condition is first read
InitOrdered(r, c, g, o) ==
    /\ rows = r
    /\ columns = c
    /\ cells = makeCells(r, c, g)
    /\ pc = "loop"
    /\ sx = 0
    /\ sy = 0
    /\ order = o
    /\ visited = {}
    /\ last = <<0, 0>>
    /\ tick = 0
    /\ shouldClose = FALSE
    /\ liveCount = 0
    /\ reads = << >>
    /\ initial = g
    /\ tickStart = makeCells(r, c, g)
    /\ prevNext = g
    /\ drawn = g
    /\ drawnPrev = g
    /\ drawCalls = << >>
    /\ checks = 0
    /\ draws = 0
    /\ polls = 0

InitWith(r, c, g) == InitOrdered(r, c, g, RowMajor(r, c))

Init ==
    \E r \in 1..MaxRows, c \in 1..MaxColumns :
        \E g \in Grids(r, c) : InitWith(r, c, g)

\* a loop that never reads window.ShouldClose()
LoopCond_NoClose ==
    /\ pc = "loop"
    /\ tick < MaxTicks
    /\ pc' = "scan"
    /\ tick' = tick + 1
    /\ tickStart' = cells
    /\ prevNext' = NextGrid(cells)
    /\ sx' = 0
    /\ sy' = 0
    /\ visited' = {}
    /\ checks' = 0
    /\ UNCHANGED <<rows, columns, cells, order, last, shouldClose, liveCount, reads,
                   initial, drawn, drawnPrev, drawCalls, draws, polls>>

\* for !window.ShouldClose(): leave the loop, or start the next scan
LoopCond ==
    /\ pc = "loop"
    /\ shouldClose \/ tick < MaxTicks
    /\ IF shouldClose
       THEN /\ pc' = "done"
            /\ UNCHANGED <<tick, tickStart, prevNext, sx, sy, visited, checks>>
       ELSE /\ pc' = "scan"
            /\ tick' = tick + 1
            /\ tickStart' = cells
            /\ prevNext' = NextGrid(cells)
            /\ sx' = 0
            /\ sy' = 0
            /\ visited' = {}
            /\ checks' = 0
    /\ UNCHANGED <<rows, columns, cells, order, last, shouldClose, liveCount, reads,
                   initial, drawn, drawnPrev, drawCalls, draws, polls>>

\* one call c.checkState(cells) on cells[x][y], and what the scan does next
Visit(x, y, nx, ny, fin) ==
    LET cs1 == Apply(cells, x, y)
        c   == cs1[x][y]
    IN  /\ visited' = visited \cup {<<x, y>>}
        /\ last' = <<x, y>>
        /\ checks' = checks + 1
        /\ reads' = SubSeq(NeighborReads(cs1, c), 1, ReadsDone(cs1, c))
        /\ IF Panics(cs1, c)
           THEN /\ cells' = cs1
                /\ pc' = "panic"
                /\ UNCHANGED <<sx, sy, liveCount>>
           ELSE /\ cells' = checkState(cells, x, y)
                /\ liveCount' = liveNeighbors(cs1, c)
                /\ sx' = nx
                /\ sy' = ny
                /\ pc' = IF fin THEN "draw" ELSE "scan"
        /\ UNCHANGED <<rows, columns, order, tick, shouldClose, initial, tickStart,
                       prevNext, drawn, drawnPrev, drawCalls, draws, polls>>

\* the body of the nested range loops of main, in their order
CheckState ==
    /\ pc = "scan"
    /\ LET lastY == sy = Len0(cells[sx]) - 1
           lastX == sx = Len0(cells) - 1
       IN  Visit(sx, sy,
                 IF lastY THEN sx + 1 ELSE sx,
                 IF lastY THEN 0 ELSE sy + 1,
                 lastY /\ lastX)

\* cell.draw without the early return for a dead cell
cellDraw_NoReturn(c) == << <<c.x, c.y>> >>

\* cell.draw: no draw call for a dead cell, one for a live cell
cellDraw(c) == IF ~c.alive THEN << >> ELSE << <<c.x, c.y>> >>

\* the draw calls of the nested range loops of draw, from position k of order o
RECURSIVE DrawCallsFrom(_, _, _)
DrawCallsFrom(cs, o, k) ==
    IF k > Len(o) THEN << >>
    ELSE cellDraw(cs[o[k][1]][o[k][2]]) \o DrawCallsFrom(cs, o, k + 1)

\* a draw that clears the board when PollEvents delivers an event
Draw_EventClears ==
    /\ pc = "draw"
    /\ drawn' = AliveGrid(cells)
    /\ drawnPrev' = drawn
    /\ drawCalls' = DrawCallsFrom(cells, RowMajor(Len0(cells), Len0(cells[0])), 1)
    /\ draws' = draws + 1
    /\ polls' = polls + 1
    /\ shouldClose' \in {shouldClose, TRUE}
    /\ cells' = IF shouldClose' # shouldClose
                THEN [x \in DOMAIN cells |-> [y \in DOMAIN cells[x] |->
                         [cells[x][y] EXCEPT !.alive = FALSE, !.aliveNext = FALSE]]]
                ELSE cells
    /\ pc' = "loop"
    /\ UNCHANGED <<rows, columns, sx, sy, order, visited, last, tick,
                   liveCount, reads, initial, tickStart, prevNext, checks>>

\* draw: every cell draws itself if alive; PollEvents may see a close request
Draw ==
    /\ pc = "draw"
    /\ drawn' = AliveGrid(cells)
    /\ drawnPrev' = drawn
    /\ drawCalls' = DrawCallsFrom(cells, RowMajor(Len0(cells), Len0(cells[0])), 1)
    /\ draws' = draws + 1
    /\ polls' = polls + 1
    /\ shouldClose' \in {shouldClose, TRUE}
    /\ pc' = "loop"
    /\ UNCHANGED <<rows, columns, cells, sx, sy, order, visited, last, tick,
                   liveCount, reads, initial, tickStart, prevNext, checks>>

Next == LoopCond \/ CheckState \/ Draw

Spec == Init /\ [][Next]_vars

----------------------------------------------------------------------------
(* Scenarios *)

\* a grid whose only live cells are (x, y), (x, y+1), (x, y+2) of one row
BlinkerGrid(r, c, x, y) ==
    [i \in 0..(r-1) |-> [j \in 0..(c-1) |-> i = x /\ j \in y..(y+2)]]

InitBlinker ==
    \E r \in 5..MaxBlinkerDim, c \in 5..MaxBlinkerDim :
        \E x \in 0..(r-1), y \in 0..(c-3) : InitWith(r, c, BlinkerGrid(r, c, x, y))

SpecBlinker == InitBlinker /\ [][Next]_vars

\* a grid whose only live cells are the 2x2 square with corner (x, y),
\* continued across the edges of the torus
BlockGrid(r, c, x, y) ==
    [i \in 0..(r-1) |-> [j \in 0..(c-1) |->
        i \in {x, (x + 1) % r} /\ j \in {y, (y + 1) % c}]]

InitBlock ==
    \E r \in 4..MaxBlockDim, c \in 4..MaxBlockDim :
        \E x \in 0..(r-1), y \in 0..(c-1) : InitWith(r, c, BlockGrid(r, c, x, y))

SpecBlock == InitBlock /\ [][Next]_vars

\* the order of the loops of main with the two range loops swapped
ColumnMajor(r, c) == [k \in 1..(r * c) |-> <<(k - 1) % r, (k - 1) \div r>>]

\* an order backwards
Reversed(o) == [k \in 1..Len(o) |-> o[Len(o) + 1 - k]]

\* orders in which a scan may visit the cells, each cell once
Orders(r, c) ==
    {RowMajor(r, c), ColumnMajor(r, c),
     Reversed(RowMajor(r, c)), Reversed(ColumnMajor(r, c))}

\* the body of a scan that visits the cells in the order of this run
CheckStateAnyOrder ==
    /\ pc = "scan"
    /\ LET k   == Cardinality(visited) + 1
           fin == k = Len(order)
           nxt == IF fin THEN order[k] ELSE order[k + 1]
       IN  Visit(order[k][1], order[k][2], nxt[1], nxt[2], fin)

NextAnyOrder == LoopCond \/ CheckStateAnyOrder \/ Draw

InitAnyOrder ==
    \E r \in 3..MaxOrderDim, c \in 3..MaxOrderDim :
        \E g \in Grids(r, c), o \in Orders(r, c) : InitOrdered(r, c, g, o)

SpecAnyOrder == InitAnyOrder /\ [][NextAnyOrder]_vars

----------------------------------------------------------------------------
(* Reference definitions of the automaton *)

\* the eight offsets of a cell's neighbours
Offsets == {d \in {-1, 0, 1} \X {-1, 0, 1} : d # <<0, 0>>}

\* number of live cells of grid g among the 8 toroidal neighbours of (x, y)
ToroidalCount(g, r, c, x, y) ==
    Cardinality({d \in Offsets : g[(x + d[1] + r) % r][(y + d[2] + c) % c]})

\* Conway's rule for a cell with value a and n live neighbours
ConwayRule(a, n) == (a /\ n \in {2, 3}) \/ (~a /\ n = 3)

\* one synchronous step of the whole grid g
ConwayStep(g, r, c) ==
    [x \in 0..(r-1) |-> [y \in 0..(c-1) |->
        ConwayRule(g[x][y], ToroidalCount(g, r, c, x, y))]]

\* every cell has 8 distinct neighbours
Torus == rows >= 3 /\ columns >= 3

\* number of live cells of a grid of booleans
Population(g) ==
    Cardinality({p \in (DOMAIN g) \X (0..(columns-1)) : g[p[1]][p[2]]})

\* the cells after one scan of checkState over cs in order o from position k
RECURSIVE ScanFrom(_, _, _)
ScanFrom(cs, o, k) ==
    IF k > Len(o) THEN cs
    ELSE ScanFrom(checkState(cs, o[k][1], o[k][2]), o, k + 1)

\* a checkState call has returned and nothing has run since
Returned == pc \in {"scan", "draw"} /\ visited # {}

----------------------------------------------------------------------------
(* Claims *)

\* C1: the alive grid draw reads in tick n+1 is exactly one synchronous
\* Conway step of the alive grid draw read in tick n, for every n >= 1.
C1_SimultaneousUpdate ==
    (Torus /\ pc = "loop" /\ tick >= 2) => drawn = ConwayStep(drawnPrev, rows, columns)

\* C2: no cell's alive field changes between the first and the last
\* next-state computation of a scan: during the scan and at its end the
\* alive grid is the grid the scan began with.
C2_NoAliveWriteDuringScan ==
    (Torus /\ pc \in {"scan", "draw"}) => AliveGrid(cells) = AliveGrid(tickStart)

\* C3 as stated: where draw reads the grid, and where the next tick begins,
\* every cell's alive equals the aliveNext computed in the tick just run.
C3_TickEndsCommitted ==
    (Torus /\ tick >= 1 /\ pc \in {"draw", "loop"}) => AliveGrid(cells) = NextGrid(cells)

\* C3 amended: the aliveNext computed in a tick is copied into alive by the
\* cell's own checkState call of the next tick: during a scan a visited
\* cell's alive is the aliveNext it held when the scan began and an unvisited
\* cell's alive is unchanged; where draw reads the grid and where the next
\* tick begins every cell's alive is the aliveNext of the end of the tick
\* before the one just run.
C3_CommittedOnVisit ==
    /\ pc \in {"scan", "draw"} =>
           \A x \in DOMAIN cells : \A y \in DOMAIN cells[x] :
               cells[x][y].alive = IF <<x, y>> \in visited
                                   THEN tickStart[x][y].aliveNext
                                   ELSE tickStart[x][y].alive
    /\ (tick >= 1 /\ pc \in {"draw", "loop"}) => AliveGrid(cells) = NextGrid(tickStart)

C3_Witness ==
    /\ Torus /\ pc = "draw" /\ tick >= 2
    /\ AliveGrid(cells) # AliveGrid(tickStart)
    /\ AliveGrid(cells) # NextGrid(cells)

\* C4: when checkState returns, aliveNext of its cell is true exactly when
\* the cell is alive with 2 or 3 live neighbours or dead with exactly 3,
\* for the count liveNeighbors returned in that call.
C4_RuleTable ==
    Returned =>
        LET c == cells[last[1]][last[2]]
        IN  /\ (c.alive /\ liveCount < 2) => ~c.aliveNext
            /\ (c.alive /\ liveCount \in {2, 3}) => c.aliveNext
            /\ (c.alive /\ liveCount > 3) => ~c.aliveNext
            /\ (~c.alive /\ liveCount = 3) => c.aliveNext
            /\ (~c.alive /\ liveCount # 3) => ~c.aliveNext

C4_Witness ==
    /\ Returned /\ tick >= 2
    /\ cells[last[1]][last[2]].alive
    /\ liveCount > 3
    /\ ~cells[last[1]][last[2]].aliveNext

\* C5: on a grid with rows, columns >= 3 liveNeighbors returns the number of
\* live cells among the 8 positions ((x+dx) mod rows, (y+dy) mod columns),
\* a value in 0..8, and cell (0,0) reads (rows-1, columns-1) as the
\* neighbour at offset (-1,-1).
C5_ToroidalCount ==
    (Torus /\ Returned) =>
        /\ liveCount = ToroidalCount(AliveGrid(cells), rows, columns, last[1], last[2])
        /\ liveCount \in 0..8
        /\ last = <<0, 0>> => reads[7] = <<rows - 1, columns - 1>>

C5_Witness ==
    /\ Torus /\ Returned
    /\ last = <<0, 0>>
    /\ cells[rows - 1][columns - 1].alive
    /\ \A p \in (0..(rows-1)) \X (0..(columns-1)) :
           p # <<rows - 1, columns - 1>> => ~cells[p[1]][p[2]].alive
    /\ liveCount = 1

\* C6: from three consecutive live cells in one row of a grid of at least
\* 5x5, the alive grid differs from the initial grid after one tick and is
\* equal to the initial grid after exactly 2 ticks.
C6_Blinker ==
    /\ (pc = "loop" /\ tick = 1) => AliveGrid(cells) # initial
    /\ (pc = "loop" /\ tick = 2) => AliveGrid(cells) = initial

\* C7: from a 2x2 block on a grid of at least 4x4, every cell's alive value
\* is the same as initially after any number of ticks.
C7_BlockStill == AliveGrid(cells) = initial

C7_Witness ==
    /\ pc = "loop" /\ tick = MaxTicks
    /\ Population(initial) = 4
    /\ Population(AliveGrid(cells)) = 4
    /\ NextGrid(cells) = initial

\* C8: the cells after a tick are the same for any two orders in which the
\* scan visits the cells: a scan in any order ends with the alive and
\* aliveNext values the scan in the order of main ends with.
C8_OrderIrrelevant ==
    pc = "draw" => cells = ScanFrom(tickStart, RowMajor(rows, columns), 1)

\* C9: the alive grid draw reads in tick n is the aliveNext grid of the end
\* of tick n-1, and the initial grid for n = 1.
C9_DeferredApply ==
    (pc = "loop" /\ tick >= 1) =>
        /\ drawn = prevNext
        /\ tick = 1 => drawn = initial

C9_Witness ==
    /\ Torus /\ pc = "loop" /\ tick >= 2
    /\ drawn = prevNext
    /\ drawn # drawnPrev
    /\ drawn # NextGrid(cells)

\* C10: every index pair liveNeighbors uses after the wraparound adjustment
\* is within the grid, for rows, columns >= 1; no tick panics.
C10_InBounds ==
    /\ pc # "panic"
    /\ \A i \in DOMAIN reads : InRange(cells, reads[i])
    /\ visited # {} => Len(reads) = 8

C10_Witness ==
    /\ Returned
    /\ last = <<rows - 1, columns - 1>>
    /\ Len(reads) = 8
    /\ reads[6] = <<0, 0>>
    /\ tick = MaxTicks

\* C11: on a grid with rows, columns >= 3 the 8 positions liveNeighbors
\* reads for a cell are 8 pairwise distinct cells, none of them the cell
\* itself, for corner, edge and interior cells.
C11_EightNeighbours ==
    (Torus /\ Returned) =>
        /\ Len(reads) = 8
        /\ \A i, j \in 1..8 : i # j => reads[i] # reads[j]
        /\ \A i \in 1..8 : reads[i] # last

C11_Witness ==
    /\ Torus /\ Returned
    /\ last = <<0, columns - 1>>
    /\ Cardinality({reads[i] : i \in 1..8}) = 8
    /\ <<rows - 1, 0>> \in {reads[i] : i \in 1..8}

\* C12: the grid consists of rows x columns cells, the cell stored at
\* cells[x][y] carries the coordinates x and y, in every state of every
\* tick, and every cell returned by makeCells has aliveNext = alive.
C12_GridShape ==
    /\ DOMAIN cells = 0..(rows - 1)
    /\ \A x \in DOMAIN cells :
           /\ DOMAIN cells[x] = 0..(columns - 1)
           /\ \A y \in DOMAIN cells[x] : cells[x][y].x = x /\ cells[x][y].y = y
    /\ Len0(cells) = rows
    /\ \A x \in DOMAIN cells : Len0(cells[x]) = columns
    /\ tick = 0 => NextGrid(cells) = AliveGrid(cells)

C12_Witness ==
    /\ pc = "loop" /\ tick = MaxTicks
    /\ rows = 2 /\ columns = 3
    /\ cells[1][2].x = 1 /\ cells[1][2].y = 2
    /\ AliveGrid(cells) # initial

\* C13: a call of checkState on cell c changes at most c.alive and
\* c.aliveNext: every other cell, and the x and y of every cell, are the
\* same after the call as before it.
C13_Frame ==
    [][pc = "scan" =>
          /\ DOMAIN cells' = DOMAIN cells
          /\ \A x \in DOMAIN cells :
                 /\ DOMAIN cells'[x] = DOMAIN cells[x]
                 /\ \A y \in DOMAIN cells[x] :
                        /\ cells'[x][y].x = cells[x][y].x
                        /\ cells'[x][y].y = cells[x][y].y
                        /\ <<x, y>> # last' => cells'[x][y] = cells[x][y]]_vars

C13_Witness ==
    /\ Returned /\ tick >= 2
    /\ cells[last[1]][last[2]].alive # tickStart[last[1]][last[2]].alive
    /\ cells[last[1]][last[2]].aliveNext # tickStart[last[1]][last[2]].aliveNext
    /\ \E p \in (DOMAIN cells) \X (DOMAIN cells[0]) :
           /\ p \notin visited
           /\ cells[p[1]][p[2]].aliveNext # cells[p[1]][p[2]].alive

\* the cells after n iterations of the loop of main from the cells cs
RECURSIVE Evolve(_, _)
Evolve(cs, n) ==
    IF n = 0 THEN cs
    ELSE Evolve(ScanFrom(cs, RowMajor(Len0(cs), Len0(cs[0])), 1), n - 1)

\* number of draw calls issued for the cell at index pair p
CallsFor(calls, p) == Cardinality({i \in DOMAIN calls : calls[i] = p})

\* the index pairs of the grid
AllCells == (0..(rows - 1)) \X (0..(columns - 1))

\* C14: the alive and aliveNext of every cell after every tick are
\* determined by the initial alive grid and the number of ticks alone: no
\* event polled by draw and nothing else influences them, so two runs from
\* the same initial grid agree after every tick.
C14_Deterministic ==
    pc \in {"loop", "draw", "done"} =>
        cells = Evolve(makeCells(rows, columns, initial), tick)

C14_Witness ==
    /\ pc = "done" /\ shouldClose /\ tick >= 2
    /\ AliveGrid(cells) # initial
    /\ NextGrid(cells) # AliveGrid(cells)

\* C15: draw issues exactly one draw call for each cell whose alive is true
\* and none for a cell whose alive is false, so the number of draw calls is
\* the number of live cells, and it changes no cell's alive or aliveNext.
C15_DrawsLiveCells ==
    [][pc = "draw" =>
          /\ cells' = cells
          /\ \A p \in AllCells :
                 CallsFor(drawCalls', p) = IF cells[p[1]][p[2]].alive THEN 1 ELSE 0
          /\ Len(drawCalls') = Population(AliveGrid(cells))]_vars

C15_Witness ==
    /\ pc = "loop" /\ tick >= 2
    /\ Len(drawCalls) = Population(drawn)
    /\ Len(drawCalls) > 0
    /\ Len(drawCalls) < rows * columns
    /\ drawn # drawnPrev

\* C16: the assignments alive = aliveNext of the first scan change nothing;
\* at the end of tick 1 every cell's aliveNext is Conway's rule applied to
\* the initial grid, and the grid draw reads in tick 2 is one synchronous
\* Conway step of the initial grid.
C16_FirstTransition ==
    /\ tick = 1 => AliveGrid(cells) = initial
    /\ (tick = 1 /\ pc \in {"draw", "loop", "done"}) =>
           NextGrid(cells) = ConwayStep(initial, rows, columns)
    /\ (tick = 2 /\ pc \in {"loop", "done"}) =>
           drawn = ConwayStep(initial, rows, columns)

C16_Witness ==
    /\ Torus /\ pc = "loop" /\ tick = 2
    /\ drawn = ConwayStep(initial, rows, columns)
    /\ drawn # initial
    /\ Population(drawn) > 0

\* C17: in every iteration checkState is called exactly once on each of the
\* rows x columns cells, all before the iteration's single call of draw;
\* draw polls the events exactly once per iteration; and once the loop
\* condition has read a true close flag no further scan or draw happens.
C17_TickStructure ==
    /\ [](pc \in {"scan", "draw"} =>
             /\ checks = Cardinality(visited)
             /\ draws = tick - 1
             /\ polls = tick - 1)
    /\ [](pc = "draw" => visited = AllCells /\ checks = rows * columns)
    /\ [](pc \in {"loop", "done"} => draws = tick /\ polls = tick)
    /\ [][(pc = "loop" /\ shouldClose) => pc' = "done"]_vars
    /\ [][pc # "done"]_vars

C17_Witness ==
    /\ pc = "done" /\ shouldClose
    /\ tick = 2 /\ draws = 2 /\ polls = 2
    /\ checks = rows * columns
    /\ rows * columns > 1

====
